---------------------------- MODULE Spec2Model ----------------------------
(***************************************************************************)
(* A model of the two pywikibot scripts of the repository:                 *)
(*   check_P1433.py   checks / repairs the "published in" claim (P1433) of *)
(*                    a Wikisource page's Wikidata item from the page      *)
(*                    hierarchy,                                           *)
(*   harvest_pap1.py  removes duplicate P1433 claims and attaches the      *)
(*                    P155 / P156 qualifiers taken from NavigacePaP.       *)
(* Page titles are strings, modelled as sequences of one-character         *)
(* strings, so that split, join, startswith, lower and "in" are computed   *)
(* as Python computes them.  A Wikidata item is identified with the title  *)
(* of the page its sitelink points to (a site links a page to at most one  *)
(* item).  The page store and the sitelinks are never written by the       *)
(* scripts; the P1433 claims of the items are.                             *)
(***************************************************************************)
EXTENDS Naturals, Sequences, FiniteSets

VARIABLES
    existing,     \* the titles for which Page.exists() is true
    redirectTo,   \* redirect page title -> title of getRedirectTarget()
    sitelink,     \* the titles ItemPage.fromPage() succeeds for
    template,     \* title -> the NavigacePaP parameters found in page.text
    claims,       \* item -> its list of P1433 claims, as stored on Wikidata
    nextId,       \* the identifier the store gives the next created claim
    all_yes,      \* check_P1433.main: the local all_yes
    always_yes,   \* harvest_pap1: the global always_yes
    pc,           \* which program is running, or how it ended
    todo,         \* the number of pages the generator still yields
    last          \* what the latest process_page call did (history)

vars == <<existing, redirectTo, sitelink, template, claims, nextId,
          all_yes, always_yes, pc, todo, last>>

world == <<existing, redirectTo, sitelink, template>>

-----------------------------------------------------------------------------
(* Bounds of the model.                                                    *)

\* the deepest page path of the hierarchy: A/B/C/D
MaxDepth == 4
\* the most P1433 claims an item carries before a check_P1433 run
MaxClaimsCheck == 1
\* the most P1433 claims an item carries before a harvest_pap1 run
MaxClaims == 3
\* the most pages the page generator yields in one run
MaxPages == 2
\* the most P1433 claims an item carries before a run of several pages
MaxClaimsSession == 2
\* how often the pipeline (check_P1433, then harvest_pap1) is run on a page
PipelineRuns == 2
\* how often add_statement_with_qualifier is called on one claim
MaxCalls == 3
\* the top-level pages a world of the title search draws from
MaxTopPages == 7

-----------------------------------------------------------------------------
(* Python strings.                                                         *)

Slash == "/"

\* str.lower(), on the characters page titles are made of here
LowerChar(c) ==
    CASE c = "A" -> "a" [] c = "B" -> "b" [] c = "C" -> "c" [] c = "D" -> "d"
      [] c = "E" -> "e" [] c = "F" -> "f" [] c = "N" -> "n" [] c = "P" -> "p" [] c = "X" -> "x"
      [] OTHER -> c

lower(s) == [i \in 1..Len(s) |-> LowerChar(s[i])]

\* needle in hay
Contains(hay, needle) ==
    \E i \in 0..Len(hay) :
        /\ i + Len(needle) <= Len(hay)
        /\ SubSeq(hay, i + 1, i + Len(needle)) = needle

\* s.startswith(p)
startswith(s, p) == Len(p) <= Len(s) /\ SubSeq(s, 1, Len(p)) = p

\* s.split("/")
RECURSIVE split(_)
split(s) ==
    IF \A i \in 1..Len(s) : s[i] # Slash
    THEN <<s>>
    ELSE LET k == CHOOSE i \in 1..Len(s) :
                     s[i] = Slash /\ \A j \in 1..(i - 1) : s[j] # Slash
         IN  <<SubSeq(s, 1, k - 1)>> \o split(SubSeq(s, k + 1, Len(s)))

\* "/".join(parts)
RECURSIVE join(_)
join(parts) ==
    IF Len(parts) = 0 THEN <<>>
    ELSE IF Len(parts) = 1 THEN parts[1]
    ELSE parts[1] \o <<Slash>> \o join(Tail(parts))

\* parts[:i]
Take(parts, i) == SubSeq(parts, 1, i)

\* str.isdigit() and int(), on what is typed at the candidate list: Enter
\* (the empty string) or one digit
Digits == <<"1", "2", "3", "4", "5", "6", "7", "8", "9">>

isdigit(c) == c = "0" \/ \E i \in 1..Len(Digits) : Digits[i] = c

int(c) == IF c = "0" THEN 0 ELSE CHOOSE i \in 1..Len(Digits) : Digits[i] = c

-----------------------------------------------------------------------------
(* The titles of the model.                                                *)

Letters == <<"A", "B", "C", "D", "E", "F">>

\* the page at depth d of the hierarchy: A, A/B, A/B/C, ...
Chain(d) == join([i \in 1..d |-> <<Letters[i]>>])

\* a top-level page outside the hierarchy, whose title contains "a"
Other == <<"X", "a">>

\* the names NavigacePaP gives for the previous and the next part
PrevName == <<"P">>
NextName == <<"N">>

\* the sibling of a page: its parent path plus a segment name
Sibling(t, name) == join(Take(split(t), Len(split(t)) - 1) \o <<name>>)

\* the title the multi-level guess builds for a page of the hierarchy
\* whose base title is the top page
MultiLevel(t) == join(Take(split(t), Len(split(t)) - 1) \o <<Chain(1)>>)

ChainTitles == {Chain(d) : d \in 1..MaxDepth}

Titles ==
    ChainTitles \cup {Other}
      \cup {Sibling(t, PrevName) : t \in ChainTitles}
      \cup {Sibling(t, NextName) : t \in ChainTitles}
      \cup {MultiLevel(t) : t \in ChainTitles}

\* None, and the empty string: both are falsy
None == <<>>
Truthy(x) == x # None

-----------------------------------------------------------------------------
(* The page store and the sitelinks, as pywikibot shows them.              *)

\* pywikibot.Page(site, title).exists()
Exists(title) == title \in existing

\* Page.isRedirectPage()
IsRedirect(title) == title \in DOMAIN redirectTo

\* Page.getRedirectTarget().title(): one hop
RedirectTarget(title) == redirectTo[title]

\* get_item_for_page(site, title): ItemPage.fromPage, None when it raises
get_item_for_page(title) == IF title \in sitelink THEN title ELSE None

\* get_param(page, name) / get_param_from_template(page, param)
get_param(page, name) ==
    IF page \in DOMAIN template THEN template[page][name] ELSE None

\* Site.allpages(namespace=0): every existing page, in title order
CharRank(c) ==
    CASE c = "/" -> 0 [] c = "A" -> 1 [] c = "B" -> 2 [] c = "C" -> 3
      [] c = "D" -> 4 [] c = "E" -> 5 [] c = "F" -> 6 [] c = "N" -> 7
      [] c = "P" -> 8 [] c = "X" -> 9 [] OTHER -> 10

RECURSIVE Before(_, _)
Before(s, t) ==
    IF Len(s) = 0 THEN Len(t) > 0
    ELSE IF Len(t) = 0 THEN FALSE
    ELSE IF s[1] = t[1] THEN Before(Tail(s), Tail(t))
    ELSE CharRank(s[1]) < CharRank(t[1])

RECURSIVE InTitleOrder(_)
InTitleOrder(S) ==
    IF S = {} THEN <<>>
    ELSE LET m == CHOOSE x \in S : \A y \in S \ {x} : Before(x, y)
         IN  <<m>> \o InTitleOrder(S \ {m})

allpages == InTitleOrder(existing)

-----------------------------------------------------------------------------
(* The knowledge-base store: the P1433 claims of the items.                *)

\* a claim as stored: its identifier, its target and its qualifiers
Claim(id, target, p155, p156) ==
    [id |-> id, target |-> target, P155 |-> p155, P156 |-> p156]

\* item.claims["P1433"] of a freshly loaded item
get_p1433_claims(item) == claims[item]

\* WikibasePage.addClaim: a new claim at the end of the item's list
addClaim(store, id, item, target) ==
    [store EXCEPT ![item] = Append(@, Claim(id, target, <<>>, <<>>))]

\* a changeTarget that adds a claim and leaves the old one
changeTarget_adds(store, item, id, target) ==
    [store EXCEPT ![item] = Append(@, Claim(id + 1, target, <<>>, <<>>))]

\* Claim.changeTarget of the claim with this identifier
changeTarget(store, item, id, target) ==
    [store EXCEPT ![item] =
        [i \in 1..Len(@) |->
            IF @[i].id = id THEN [@[i] EXCEPT !.target = target] ELSE @[i]]]

\* WikibasePage.removeClaims([c]): the claim with this identifier goes
RECURSIVE Without(_, _)
Without(cs, id) ==
    IF Len(cs) = 0 THEN <<>>
    ELSE IF cs[1].id = id THEN Without(Tail(cs), id)
    ELSE <<cs[1]>> \o Without(Tail(cs), id)

removeClaims(store, item, id) == [store EXCEPT ![item] = Without(@, id)]

\* Claim.addQualifier: reaches the store only while the claim is on its
\* item (a claim removed in this call has on_item = None)
addQualifier(store, item, id, prop, target) ==
    [store EXCEPT ![item] =
        [i \in 1..Len(@) |->
            IF @[i].id = id THEN [@[i] EXCEPT ![prop] = Append(@, target)]
            ELSE @[i]]]

-----------------------------------------------------------------------------
(* What a process_page call does, as a list of events.                     *)

Ev(kind, edit, item, claim, target, prop, ans, text) ==
    [kind |-> kind, edit |-> edit, item |-> item, claim |-> claim,
     target |-> target, prop |-> prop, ans |-> ans, text |-> text]

\* print / pywikibot.output / pywikibot.warning
print(text, target) == Ev("print", "", None, 0, target, "", "", text)

\* confirm(question), or the input() of harvest_pap1, with its answer
Confirm(edit, item, target, ans) ==
    Ev("confirm", edit, item, 0, target, "", ans, "")

\* the other input() prompts: the candidate number, the browser question
Input(text, ans) == Ev("input", "", None, 0, None, "", ans, text)

\* a mutation of the knowledge-base store
Mutation(kind, edit, item, claim, target, prop, summary) ==
    Ev(kind, edit, item, claim, target, prop, "", summary)

MutationKinds == {"addClaim", "changeTarget", "removeClaims", "addQualifier"}

\* what process_page hands back to main, and what it did to the store
Result(store, id, ay, events, raised) ==
    [claims |-> store, nextId |-> id, all_yes |-> ay, events |-> events,
     raised |-> raised]

\* "return all_yes" with the store as it was
Return(ay, events) == Result(claims, nextId, ay, events, FALSE)

\* an exception leaves process_page
Raise(ay, events) == Result(claims, nextId, ay, events, TRUE)

-----------------------------------------------------------------------------
(* check_P1433.py                                                          *)

\* the most similar titles offered
MaxCandidates == 5

\* candidates = ["/".join(parts[:i]) for i in range(1, len(parts))]
guess_candidates(parts) ==
    [i \in 1..(Len(parts) - 1) |-> join(Take(parts, i))]

\* a walk that keeps the first existing level it meets
RECURSIVE guess_walk_keeps_first(_, _, _)
guess_walk_keeps_first(candidates, i, best_existing) ==
    IF i = 0 THEN best_existing
    ELSE IF ~Exists(candidates[i])
         THEN guess_walk_keeps_first(candidates, i - 1, best_existing)
    ELSE LET candidate_page ==
                 IF IsRedirect(candidates[i])
                 THEN RedirectTarget(candidates[i]) ELSE candidates[i]
         IN  IF get_item_for_page(candidate_page) # None
             THEN candidate_page
             ELSE guess_walk_keeps_first(candidates, i - 1,
                      IF Truthy(best_existing) THEN best_existing
                      ELSE candidate_page)

\* for candidate in reversed(candidates): ...; the walk is at candidates[i]
RECURSIVE guess_walk(_, _, _)
guess_walk(candidates, i, best_existing) ==
    IF i = 0 THEN best_existing
    ELSE IF ~Exists(candidates[i])
         THEN guess_walk(candidates, i - 1, best_existing)
    ELSE LET candidate_page ==
                 IF IsRedirect(candidates[i])
                 THEN RedirectTarget(candidates[i]) ELSE candidates[i]
         IN  IF get_item_for_page(candidate_page) # None
             THEN candidate_page
             ELSE guess_walk(candidates, i - 1, candidate_page)

\* a guess_base_title that returns the declared title
guess_base_title_from_titul(page) == get_param(page, "TITUL")

\* guess_base_title(page, title_param): title_param is never read
guess_base_title(page) ==
    LET parts == split(page) IN
    IF Len(parts) = 1 THEN parts[1]
    ELSE LET candidates == guess_candidates(parts)
             best == guess_walk(candidates, Len(candidates), None)
         IN  IF Truthy(best) THEN best ELSE parts[1]

\* get_publication_item(item): the target of the first P1433 claim
get_publication_item(item) ==
    IF Len(claims[item]) > 0 THEN claims[item][1].target ELSE None

\* an answer taken for yes whatever was typed
Answer_always_yes(ay, ans) == "y"

\* ans = "y" if all_yes else confirm(question)
Answer(ay, ans) == IF ay THEN "y" ELSE ans

Asked(ay, edit, item, target, ans) ==
    IF ay THEN <<>> ELSE <<Confirm(edit, item, target, ans)>>

\* an edit that calls item.addClaim twice
add_edit_twice(item, target, summary, ay, ans, events) ==
    LET a == Answer(ay, ans)
        evs == events \o Asked(ay, "ADD", item, target, ans)
    IN  IF a \in {"y", "a"}
        THEN Result(addClaim(addClaim(claims, nextId, item, target),
                             nextId + 1, item, target),
                    nextId + 2,
                    ay \/ a = "a",
                    evs \o <<Mutation("addClaim", "ADD", item, nextId,
                                      target, "P1433", summary),
                             Mutation("addClaim", "ADD", item, nextId + 1,
                                      target, "P1433", summary)>>,
                    FALSE)
        ELSE Return(ay, evs)

\* the four "ask, then item.addClaim" blocks of process_page
add_edit(item, target, summary, ay, ans, events) ==
    LET a == Answer(ay, ans)
        evs == events \o Asked(ay, "ADD", item, target, ans)
    IN  IF a \in {"y", "a"}
        THEN Result(addClaim(claims, nextId, item, target), nextId + 1,
                    ay \/ a = "a",
                    evs \o <<Mutation("addClaim", "ADD", item, nextId,
                                      target, "P1433", summary)>>,
                    FALSE)
        ELSE Return(ay, evs)

\* a walk that starts at the top page instead of the nearest parent
walk_candidates_top_first(parts) ==
    [k \in 1..(Len(parts) - 1) |-> join(Take(parts, k))]

\* candidates = ["/".join(parts[:i]) for i in range(len(parts) - 1, 0, -1)]
walk_candidates(parts) ==
    [k \in 1..(Len(parts) - 1) |-> join(Take(parts, Len(parts) - k))]

\* for cand in candidates: the first existing candidate whose page, after
\* the redirect is followed, has an item; None when the loop runs out
RECURSIVE first_with_item(_, _)
first_with_item(candidates, i) ==
    IF i > Len(candidates) THEN None
    ELSE IF ~Exists(candidates[i]) THEN first_with_item(candidates, i + 1)
    ELSE LET cand_page ==
                 IF IsRedirect(candidates[i])
                 THEN RedirectTarget(candidates[i]) ELSE candidates[i]
         IN  IF get_item_for_page(cand_page) # None
             THEN cand_page
             ELSE first_with_item(candidates, i + 1)

\* process_page, TITUL missing: the walk up the hierarchy
without_titul(page, item, ay, ans) ==
    LET parts == split(page)
        evs == <<print("no TITUL", None)>>
    IN  IF Len(parts) <= 1
        THEN Return(ay, evs \o <<print("no parent level", None)>>)
        ELSE LET cand_page == first_with_item(walk_candidates(parts), 1)
                 cand_item == get_item_for_page(cand_page)
             IN  IF Truthy(cand_page)
                 THEN add_edit(item, cand_item,
                        "Doplneno publikovano v (odhad hierarchie bez TITUL)",
                        ay, ans,
                        evs \o <<print("found", cand_item)>>)
                 ELSE Return(ay,
                        evs \o <<print("no parent level has an item", None)>>)

\* a search that stops once it holds more than the limit
RECURSIVE similar_titles_late_stop(_, _, _, _)
similar_titles_late_stop(pages, i, search_title, alt_candidates) ==
    IF i > Len(pages) THEN alt_candidates
    ELSE LET p == pages[i]
             alt == IF /\ Contains(lower(p), search_title)
                       /\ ~Contains(p, <<Slash>>)
                    THEN Append(alt_candidates, p) ELSE alt_candidates
         IN  IF Len(alt) > MaxCandidates THEN alt
             ELSE similar_titles_late_stop(pages, i + 1, search_title, alt)

\* the similar titles: top-level pages whose title holds the base title
RECURSIVE similar_titles(_, _, _, _)
similar_titles(pages, i, search_title, alt_candidates) ==
    IF i > Len(pages) THEN alt_candidates
    ELSE LET p == pages[i]
             alt == IF /\ Contains(lower(p), search_title)
                       /\ ~Contains(p, <<Slash>>)
                    THEN Append(alt_candidates, p) ELSE alt_candidates
         IN  IF Len(alt) >= MaxCandidates THEN alt
             ELSE similar_titles(pages, i + 1, search_title, alt)

\* the same loop: how many pages it took from site.allpages before it ended
RECURSIVE pages_read(_, _, _, _)
pages_read(pages, i, search_title, alt_candidates) ==
    IF i > Len(pages) THEN Len(pages)
    ELSE LET p == pages[i]
             alt == IF /\ Contains(lower(p), search_title)
                       /\ ~Contains(p, <<Slash>>)
                    THEN Append(alt_candidates, p) ELSE alt_candidates
         IN  IF Len(alt) >= MaxCandidates THEN i
             ELSE pages_read(pages, i + 1, search_title, alt)

\* process_page, "Fallback: nabidni podobne nazvy"
fallback(item, base_title, ay, ans, choice, events) ==
    LET alt_candidates == similar_titles(allpages, 1, lower(base_title), <<>>)
    IN  IF Len(alt_candidates) = 0
        THEN Return(ay, events \o <<print("no similar titles", None)>>)
        ELSE LET evs == events \o <<print("candidates", None)>>
                               \o [i \in 1..Len(alt_candidates) |->
                                      print("candidate", alt_candidates[i])]
                               \o <<Input("number", choice)>>
             IN  IF /\ isdigit(choice)
                    /\ 1 <= int(choice)
                    /\ int(choice) <= Len(alt_candidates)
                 THEN LET chosen_page == alt_candidates[int(choice)]
                          expected_item == get_item_for_page(chosen_page)
                      IN  IF expected_item # None
                          THEN add_edit(item, expected_item,
                                 "Oprava publikovano v (NavigacePaP, nalezeno podobne dilo)",
                                 ay, ans, evs)
                          ELSE Return(ay,
                                 evs \o <<print("chosen page has no item", None)>>)
                 ELSE Return(ay, evs)

\* process_page, "Nenalezena polozka, zkus vicestupnovy odhad"
not_found(page, item, base_title, ay, ans, choice) ==
    LET parts == split(page)
        prefix == join(Take(parts, Len(parts) - 1))
        candidate_full == prefix \o <<Slash>> \o base_title
        candidate_item == get_item_for_page(candidate_full)
        current_item == get_publication_item(item)
        evs == <<print("no item for the expected work", base_title)>>
    IN  IF Len(parts) > 2 /\ ~startswith(base_title, prefix)
           /\ candidate_item # None
        THEN \* "current_item.id == cand_item.id": cand_item is a local
             \* of process_page that this branch never assigned
             IF current_item # None
             THEN Raise(ay, evs \o <<print("found as", candidate_item)>>)
             ELSE add_edit(item, candidate_item,
                    "Oprava publikovano v (NavigacePaP, odhad vicestupnoveho nazvu)",
                    ay, ans, evs \o <<print("found as", candidate_item)>>)
        ELSE fallback(item, base_title, ay, ans, choice, evs)

\* process_page, "Zpracovani existujici polozky"
reconcile(item, expected_item, ay, ans) ==
    LET current_item == get_publication_item(item) IN
    IF current_item = None
    THEN add_edit(item, expected_item, "Doplneno publikovano v (NavigacePaP)",
                  ay, ans, <<print("missing", expected_item)>>)
    ELSE IF current_item = expected_item
    THEN Return(ay, <<print("matches", current_item)>>)
    ELSE LET a == Answer(ay, ans)
             evs == <<print("mismatch", expected_item)>>
                      \o Asked(ay, "REPLACE", item, expected_item, ans)
             claim == claims[item][1]
         IN  IF a \in {"y", "a"}
             THEN Result(changeTarget(claims, item, claim.id, expected_item),
                         nextId, ay \/ a = "a",
                         evs \o <<Mutation("changeTarget", "REPLACE", item,
                                           claim.id, expected_item, "P1433",
                                           "Oprava publikovano v (NavigacePaP)")>>,
                         FALSE)
             ELSE Return(ay, evs)

\* check_P1433.process_page(page, repo, all_yes); ans is what confirm()
\* returns if it is called, choice the number typed at the candidate list
check_process_page(page, ay, ans, choice) ==
    LET item == get_item_for_page(page)
        title_param == get_param(page, "TITUL")
    IN  IF item = None THEN Return(ay, <<print("page has no item", None)>>)
        ELSE IF ~Truthy(title_param) THEN without_titul(page, item, ay, ans)
        ELSE LET base_title == guess_base_title(page)
                 expected_item == get_item_for_page(base_title)
             IN  IF expected_item = None
                 THEN not_found(page, item, base_title, ay, ans, choice)
                 ELSE reconcile(item, expected_item, ay, ans)

-----------------------------------------------------------------------------
(* harvest_pap1.py                                                         *)

\* a has_qualifiers that finds no qualifier on any claim
has_qualifiers_never(claim) == FALSE

\* a has_qualifiers that looks at P155 alone
has_qualifiers_P155_only(claim) == Len(claim.P155) > 0

\* has_qualifiers(claim, qualifiers=("P155", "P156"))
has_qualifiers(claim) == Len(claim.P155) > 0 \/ Len(claim.P156) > 0

\* [c for c in claims if has_qualifiers(c)] and its complement
RECURSIVE Select(_, _)
Select(cs, qualified) ==
    IF Len(cs) = 0 THEN <<>>
    ELSE IF has_qualifiers(cs[1]) = qualified
         THEN <<cs[1]>> \o Select(Tail(cs), qualified)
         ELSE Select(Tail(cs), qualified)

\* for c in no_qual: item.removeClaims([c], summary=...)
RECURSIVE remove_each(_, _, _)
remove_each(store, item, no_qual) ==
    IF Len(no_qual) = 0 THEN store
    ELSE remove_each(removeClaims(store, item, no_qual[1].id), item,
                     Tail(no_qual))

removal_events(item, no_qual) ==
    [i \in 1..Len(no_qual) |->
        Mutation("removeClaims", "DEDUP", item, no_qual[i].id,
                 no_qual[i].target, "P1433",
                 "Odstraneno duplicitni 'publikovano v' bez kvalifikatoru")]

\* what cleanup_p1433_duplicates returns (journal: no claim, or one) and does
Cleaned(journal, store, ay, events) ==
    [journal |-> journal, claims |-> store, always_yes |-> ay,
     events |-> events]

\* [c for c in claims if c.getTarget().id == target_qid][0]
first_with_target(cs, target_qid) ==
    cs[CHOOSE i \in 1..Len(cs) :
          /\ cs[i].target = target_qid
          /\ \A j \in 1..(i - 1) : cs[j].target # target_qid]

\* a test that lets two targets through
several_targets_over_two(unique_targets) == Cardinality(unique_targets) > 2

\* if len(unique_targets) > 1
several_targets(unique_targets) == Cardinality(unique_targets) > 1

\* cleanup_p1433_duplicates(repo, item, claims); open is the answer to the
\* browser question, ans the answer to the removal question
cleanup_p1433_duplicates(item, cs, ay, open, ans) ==
    LET unique_targets == {cs[i].target : i \in 1..Len(cs)}
        target_qid == CHOOSE t \in unique_targets : TRUE
        no_qual == Select(cs, FALSE)
    IN  IF several_targets(unique_targets)
        THEN Cleaned(<<>>, claims, ay,
                 <<print("different values", None)>>
                   \o [i \in 1..Len(cs) |-> print("value", cs[i].target)]
                   \o <<Input("open in browser", open)>>)
        ELSE IF Len(cs) > 1 /\ Len(no_qual) > 0
        THEN LET evs == <<print("several P1433 with one target", target_qid)>>
                          \o [i \in 1..Len(no_qual) |->
                                print("candidate for removal", None)]
                          \o <<Confirm("DEDUP", item, target_qid, ans)>>
             IN  IF ans \in {"y", "a"}
                 THEN Cleaned(<<first_with_target(cs, target_qid)>>,
                          remove_each(claims, item, no_qual),
                          ay \/ ans = "a",
                          evs \o removal_events(item, no_qual)
                              \o <<print("duplicates removed", None)>>)
                 ELSE Cleaned(<<first_with_target(cs, target_qid)>>,
                          claims, ay, evs)
        ELSE Cleaned(<<first_with_target(cs, target_qid)>>, claims, ay, <<>>)

\* what add_statement_with_qualifier leaves: the store, the claim object
\* in the script's memory, the events
Qualified(store, journal_claim, events) ==
    [claims |-> store, journal_claim |-> journal_claim, events |-> events]

\* an add_statement_with_qualifier that does not look at the qualifiers
\* the claim has
add_statement_with_qualifier_unchecked(store, item, prop, target_item, journal_claim) ==
    IF ~Truthy(target_item)
    THEN Qualified(store, journal_claim, <<>>)
    ELSE Qualified(
             addQualifier(store, item, journal_claim.id, prop, target_item),
             [journal_claim EXCEPT ![prop] = Append(@, target_item)],
             <<Mutation("addQualifier", "QUALIFY", item, journal_claim.id,
                        target_item, prop,
                        "Adding qualifier for P1433 (NavigacePaP)")>>)

\* add_statement_with_qualifier(repo, item, prop, target_item, journal_claim)
\* Claim.addQualifier calls the repository only while the claim is on its
\* item; the claim object in memory takes the qualifier either way.
add_statement_with_qualifier(store, item, prop, target_item, journal_claim) ==
    LET on_item == \E i \in 1..Len(store[item]) :
                      store[item][i].id = journal_claim.id
    IN  IF ~Truthy(target_item)
        THEN Qualified(store, journal_claim, <<>>)
        ELSE IF \E i \in 1..Len(journal_claim[prop]) :
                    journal_claim[prop][i] = target_item
        THEN Qualified(store, journal_claim, <<>>)
        ELSE Qualified(
                 addQualifier(store, item, journal_claim.id, prop, target_item),
                 [journal_claim EXCEPT ![prop] = Append(@, target_item)],
                 IF on_item
                 THEN <<Mutation("addQualifier", "QUALIFY", item,
                                 journal_claim.id, target_item, prop,
                                 "Adding qualifier for P1433 (NavigacePaP)")>>
                 ELSE <<print("qualifier on a removed claim", target_item)>>)

\* what harvest_pap1.process_page did
Harvested(store, ay, events, returned) ==
    [claims |-> store, nextId |-> nextId, always_yes |-> ay,
     events |-> events, raised |-> FALSE, returned |-> returned]

\* process_page, from "Urc zakladni nazev" on: the two siblings
attach_siblings(page, item, journal_claim, store, ay, events, returned) ==
    LET parts == split(page)
        prev_title == get_param(page, "PREDCHOZI")
        next_title == get_param(page, "DALSI")
        prev_full == join(Take(parts, Len(parts) - 1) \o <<prev_title>>)
        next_full == join(Take(parts, Len(parts) - 1) \o <<next_title>>)
        prev_item == get_item_for_page(prev_full)
        next_item == get_item_for_page(next_full)
        q1 == IF ~Truthy(prev_title)
              THEN Qualified(store, journal_claim, <<>>)
              ELSE IF prev_item # None
              THEN add_statement_with_qualifier(store, item, "P155",
                                                prev_item, journal_claim)
              ELSE Qualified(store, journal_claim,
                             <<print("no item for the previous", prev_full)>>)
        q2 == IF ~Truthy(next_title)
              THEN Qualified(q1.claims, q1.journal_claim, <<>>)
              ELSE IF next_item # None
              THEN add_statement_with_qualifier(q1.claims, item, "P156",
                                                next_item, q1.journal_claim)
              ELSE Qualified(q1.claims, q1.journal_claim,
                             <<print("no item for the next", next_full)>>)
    IN  Harvested(q2.claims, ay,
                  events \o <<print("published in", journal_claim.target)>>
                         \o q1.events \o q2.events,
                  returned)

\* harvest_pap1.process_page(page, repo)
harvest_process_page(page, ay, open, ans) ==
    LET item == get_item_for_page(page)
        prev_title == get_param(page, "PREDCHOZI")
        next_title == get_param(page, "DALSI")
        cs == get_p1433_claims(item)
        cleaned == cleanup_p1433_duplicates(item, cs, ay, open, ans)
    IN  IF item = None
        THEN Harvested(claims, ay, <<print("page has no item", None)>>, <<>>)
        ELSE IF ~(Truthy(prev_title) \/ Truthy(next_title))
        THEN Harvested(claims, ay, <<print("no previous or next part", None)>>,
                       <<>>)
        ELSE IF Len(cs) = 0
        THEN Harvested(claims, ay, <<print("no P1433", None)>>, <<>>)
        ELSE IF cleaned.journal = <<>>
        THEN Harvested(cleaned.claims, cleaned.always_yes, cleaned.events,
                       <<>>)
        ELSE IF has_qualifiers(cleaned.journal[1])
        THEN Harvested(cleaned.claims, cleaned.always_yes,
                       cleaned.events
                         \o <<print("P1433 already has P155/P156", None)>>,
                       cleaned.journal)
        ELSE attach_siblings(page, item, cleaned.journal[1], cleaned.claims,
                             cleaned.always_yes, cleaned.events,
                             cleaned.journal)

-----------------------------------------------------------------------------
(* The worlds the programs start in.                                       *)

\* The pages that carry NavigacePaP, each with these parameters.
\* check_P1433 reads TITUL only, harvest_pap1 PREDCHOZI and DALSI only.
Params(pages, titul, prev, next) ==
    [t \in pages |-> [TITUL |-> titul, PREDCHOZI |-> prev, DALSI |-> next]]

\* a list of stored claims from their targets and qualifiers
Stored(shape, first) ==
    [i \in 1..Len(shape) |->
        Claim(first + i - 1, shape[i].target, shape[i].P155, shape[i].P156)]

Shapes(targets, quals, n) ==
    UNION {[1..k -> {[target |-> t, P155 |-> q[1], P156 |-> q[2]] :
                        t \in targets, q \in quals}] : k \in 0..n}

\* a page above the focus page is absent, a page without an item, a page
\* with an item, or a redirect to the page Other
AncestorStates == {"absent", "page", "item", "redirect"}

\* The page Chain(d) with its item, the hierarchy above it (st), the page
\* Other, the page the multi-level guess looks for, and the siblings that
\* have an item.  Pages below Chain(d) do not exist.
Hierarchy(d, st, other, multi, siblings) ==
    LET above(state) == {Chain(i) : i \in {j \in 1..(d - 1) : st[j] = state}}
        extra == (IF multi THEN {MultiLevel(Chain(d))} ELSE {})
                   \cup {Sibling(Chain(d), n) : n \in siblings}
    IN  /\ existing = above("page") \cup above("item") \cup above("redirect")
                        \cup {Chain(d)} \cup extra
                        \cup (IF other # "absent" THEN {Other} ELSE {})
        /\ redirectTo = [t \in above("redirect") |-> Other]
        /\ sitelink = above("item") \cup {Chain(d)} \cup extra
                        \cup (IF other = "item" THEN {Other} ELSE {})

\* only the top page exists above the focus page
TopOnly(d, top) == [i \in 1..(d - 1) |-> IF i = 1 THEN top ELSE "absent"]

NoCall ==
    [script |-> "none", page |-> None, skipped |-> FALSE, all_yes |-> FALSE,
     claims |-> claims, events |-> <<>>, raised |-> FALSE, returned |-> <<>>]

\* the targets of the claims found on an item
Targets == {Chain(1), Other}

Unqualified == {<<<<>>, <<>>>>}

\* The claims of the items the programs load: those of the focus page
\* and of the page Other.  Other's item has none, and no item is said to
\* be published in itself.
OnFocus(d, shape) ==
    /\ \A i \in 1..Len(shape) : shape[i].target # Chain(d)
    /\ claims = [q \in {Chain(d), Other} |->
                    IF q = Chain(d) THEN Stored(shape, 1) ELSE <<>>]
    /\ nextId = Len(shape) + 1

Start(program, pages) ==
    /\ all_yes = FALSE
    /\ always_yes = FALSE
    /\ pc = program
    /\ todo = pages
    /\ last = NoCall

\* check_P1433.main before its loop, one page to come: every hierarchy
InitResolve ==
    /\ \E d \in 1..MaxDepth :
       \E st \in [1..(d - 1) -> AncestorStates] :
       \E other \in {"page", "item"} :
       \E titul \in {None, Other} :
       \E multi \in {m \in BOOLEAN : m => (d >= 3 /\ titul # None)} :
       \E shape \in Shapes(Targets \cup (IF multi THEN {MultiLevel(Chain(d))}
                                                  ELSE {}),
                           Unqualified, MaxClaimsCheck) :
          /\ Hierarchy(d, st, other, multi, {})
          /\ OnFocus(d, shape)
          /\ template = Params({Chain(d), Other}, titul, None, None)
    /\ Start("check", 1)

-----------------------------------------------------------------------------
(* check_P1433.main: "for page in gen".                                    *)

\* the pages a generator yields: those that transclude NavigacePaP, and
\* the redirects
Yielded == DOMAIN template \cup DOMAIN redirectTo

Call(script, page, skipped, r, returned) ==
    [script |-> script, page |-> page, skipped |-> skipped,
     all_yes |-> IF script = "check" THEN all_yes ELSE always_yes,
     claims |-> claims, events |-> r.events, raised |-> r.raised,
     returned |-> returned]

\* if not page.exists() or page.isRedirectPage(): continue
CheckSkip ==
    /\ pc = "check" /\ todo > 0
    /\ \E page \in Yielded :
          /\ ~Exists(page) \/ IsRedirect(page)
          /\ last' = Call("check", page, TRUE, Return(all_yes, <<>>), <<>>)
    /\ todo' = todo - 1
    /\ UNCHANGED <<world, claims, nextId, all_yes, always_yes, pc>>

\* all_yes = process_page(page, repo, all_yes); an exception ends the run
CheckProcess ==
    /\ pc = "check" /\ todo > 0
    /\ \E page \in Yielded :
       \E ans \in {"y", "n", "a"} :
       \E choice \in {"", "1", "2"} :
          LET r == check_process_page(page, all_yes, ans, choice) IN
          /\ Exists(page) /\ ~IsRedirect(page)
          /\ claims' = r.claims
          /\ nextId' = r.nextId
          /\ all_yes' = IF r.raised THEN all_yes ELSE r.all_yes
          /\ pc' = IF r.raised THEN "aborted" ELSE pc
          /\ last' = Call("check", page, FALSE, r, <<>>)
    /\ todo' = todo - 1
    /\ UNCHANGED <<world, always_yes>>

NextCheck == CheckSkip \/ CheckProcess

SpecResolve == InitResolve /\ [][NextCheck]_vars

\* top-level titles: B, and titles that hold an "a" whatever the case
SearchTitles ==
    <<<<"B">>, <<"A", "A">>, <<"A", "B">>, <<"B", "A">>, <<"C", "A">>,
      <<"D", "A">>, <<"E", "A">>, <<"F", "A">>, <<"X", "A">>>>

SearchPool == {SearchTitles[i] : i \in 1..MaxTopPages}

\* check_P1433.main before its loop, one page to come: the page A/B, which
\* declares TITUL and has an item, no item above it, and any of the
\* top-level pages beside it
InitSearch ==
    /\ \E top \in {"absent", "page"} :
       \E other \in {"absent", "page", "item"} :
       \E pool \in SUBSET SearchPool :
       \E linked \in {{}, pool} :
          /\ existing = {Chain(2)} \cup pool
                          \cup (IF top = "page" THEN {Chain(1)} ELSE {})
                          \cup (IF other # "absent" THEN {Other} ELSE {})
          /\ redirectTo = [t \in {} |-> Other]
          /\ sitelink = {Chain(2)} \cup linked
                          \cup (IF other = "item" THEN {Other} ELSE {})
          /\ OnFocus(2, <<>>)
          /\ template = Params({Chain(2), Other}, Other, None, None)
    /\ Start("check", 1)

SpecSearch == InitSearch /\ [][NextCheck]_vars

-----------------------------------------------------------------------------
(* harvest_pap1.main: "for page in gen".                                   *)

\* if not page.exists() or page.isRedirectPage(): continue
HarvestSkip ==
    /\ pc = "harvest" /\ todo > 0
    /\ \E page \in Yielded :
          /\ ~Exists(page) \/ IsRedirect(page)
          /\ last' = Call("harvest", page, TRUE, Return(always_yes, <<>>), <<>>)
    /\ todo' = todo - 1
    /\ UNCHANGED <<world, claims, nextId, all_yes, always_yes, pc>>

\* process_page(page, repo); open and ans are what is typed at its prompts
HarvestProcess ==
    /\ pc = "harvest" /\ todo > 0
    /\ \E page \in Yielded :
       \E open \in {"y", ""} :
       \E ans \in {"y", "n", "a", ""} :
          LET r == harvest_process_page(page, always_yes, open, ans) IN
          /\ Exists(page) /\ ~IsRedirect(page)
          /\ claims' = r.claims
          /\ always_yes' = r.always_yes
          /\ last' = Call("harvest", page, FALSE, r, r.returned)
    /\ todo' = todo - 1
    /\ UNCHANGED <<world, nextId, all_yes, pc>>

NextHarvest == HarvestSkip \/ HarvestProcess

\* the qualifiers of a claim found on an item: none, a previous part, a
\* next part
Qualifiers ==
    {<<<<>>, <<>>>>, <<<<Sibling(Chain(2), PrevName)>>, <<>>>>,
     <<<<>>, <<Sibling(Chain(2), NextName)>>>>}

\* harvest_pap1.main before its loop, one page to come: the page A/B with
\* every list of claims, parameters and siblings; the page Other is gone
InitDedup ==
    /\ \E siblings \in SUBSET {PrevName, NextName} :
       \E prev \in {None, PrevName} :
       \E next \in {None, NextName} :
       \E shape \in Shapes(Targets, Qualifiers, MaxClaims) :
          /\ Hierarchy(2, TopOnly(2, "page"), "absent", FALSE, siblings)
          /\ OnFocus(2, shape)
          /\ template = Params({Chain(2), Other}, None, prev, next)
    /\ Start("harvest", 1)

SpecDedup == InitDedup /\ [][NextHarvest]_vars

-----------------------------------------------------------------------------
(* Runs over several pages, of either program.                             *)

\* the claims of the focus page's item and of the item of Other
OnBoth(d, shape, shape2) ==
    /\ \A i \in 1..Len(shape) : shape[i].target # Chain(d)
    /\ claims = [q \in {Chain(d), Other} |->
                    IF q = Chain(d) THEN Stored(shape, 1)
                    ELSE Stored(shape2, Len(shape) + 1)]
    /\ nextId = Len(shape) + Len(shape2) + 1

\* check_P1433.main before its loop: the focus page, the top page above
\* it, the page Other
InitCheck ==
    /\ \E d \in 1..MaxDepth :
       \E top \in {"page", "item", "redirect"} :
       \E other \in {"page", "item"} :
       \E multi \in {m \in BOOLEAN : m => d >= 3} :
       \E shape \in Shapes(Targets, Unqualified, MaxClaimsCheck) :
       \E titul \in {None, Other} :
          /\ Hierarchy(d, TopOnly(d, top), other, multi, {})
          /\ OnFocus(d, shape)
          /\ template = Params({Chain(d), Other}, titul, None, None)
    /\ Start("check", MaxPages)

\* harvest_pap1.main before its loop: the page A/B and the page Other,
\* both with an item
InitHarvest ==
    /\ \E siblings \in {{}, {PrevName, NextName}} :
       \E top \in {"page", "redirect"} :
       \E shape \in Shapes(Targets, {q \in Qualifiers : q[2] = <<>>},
                           MaxClaimsSession) :
       \E shape2 \in {<<>>, [i \in 1..2 |->
                               [target |-> Chain(1), P155 |-> <<>>,
                                P156 |-> <<>>]]} :
          /\ Hierarchy(2, TopOnly(2, top), "item", FALSE, siblings)
          /\ OnBoth(2, shape, shape2)
          /\ template = Params({Chain(2), Other}, None, PrevName, NextName)
    /\ Start("harvest", MaxPages)

Init == InitCheck \/ InitHarvest

Next == CheckSkip \/ CheckProcess \/ HarvestSkip \/ HarvestProcess

Spec == Init /\ [][Next]_vars

-----------------------------------------------------------------------------
(* The pipeline on one page: check_P1433.process_page, then                *)
(* harvest_pap1.process_page, every confirmation answered yes; and again.  *)

\* the page the pipeline runs on: the same in every call
PipelinePage(page) ==
    /\ page \in DOMAIN template
    /\ Exists(page) /\ ~IsRedirect(page)
    /\ last.script = "none" \/ page = last.page

PipeCheck ==
    /\ pc = "pipeline check" /\ todo > 0
    /\ \E page \in Yielded :
       \E choice \in {"", "1", "2"} :
          LET r == check_process_page(page, FALSE, "y", choice) IN
          /\ PipelinePage(page)
          /\ claims' = r.claims
          /\ nextId' = r.nextId
          /\ pc' = IF r.raised THEN "aborted" ELSE "pipeline harvest"
          /\ last' = Call("check", page, FALSE, r, <<>>)
    /\ todo' = todo - 1
    /\ UNCHANGED <<world, all_yes, always_yes>>

PipeHarvest ==
    /\ pc = "pipeline harvest" /\ todo > 0
    /\ \E page \in Yielded :
       \E open \in {"y", ""} :
          LET r == harvest_process_page(page, FALSE, open, "y") IN
          /\ PipelinePage(page)
          /\ claims' = r.claims
          /\ pc' = "pipeline check"
          /\ last' = Call("harvest", page, FALSE, r, r.returned)
    /\ todo' = todo - 1
    /\ UNCHANGED <<world, nextId, all_yes, always_yes>>

NextPipeline == PipeCheck \/ PipeHarvest

\* the focus page with its parameters, its siblings and the claims of its
\* item, the top page above it, the page Other
InitPipeline ==
    /\ \E d \in 1..MaxDepth :
       \E top \in {"page", "item"} :
       \E other \in {"page", "item"} :
       \E multi \in {m \in BOOLEAN : m => d >= 3} :
       \E shape \in Shapes(Targets, {q \in Qualifiers : q[2] = <<>>},
                           MaxClaimsSession) :
       \E titul \in {None, Other} :
          /\ Hierarchy(d, TopOnly(d, top), other, multi,
                       {PrevName, NextName})
          /\ OnFocus(d, shape)
          /\ template = Params({Chain(d), Other}, titul, PrevName, NextName)
    /\ Start("pipeline check", 2 * PipelineRuns)

SpecPipeline == InitPipeline /\ [][NextPipeline]_vars

\* the calls made so far in a pipeline
PipelineCalls == 2 * PipelineRuns - todo

-----------------------------------------------------------------------------
(* What the claims speak of.                                               *)

\* the latest step was a process_page call of this program
Processed(script) == last.script = script /\ ~last.skipped

IsMutation(e) == e.kind \in MutationKinds

\* the events of the latest call that satisfy Test
Events(Test(_)) == SelectSeq(last.events, Test)

\* the P1433 claims the page's item had when the latest call began
Entry == last.claims[last.page]

\* the claims the page's item has now
Now == claims[last.page]

\* the levels above a page that exist and, once a redirect is followed,
\* have an item; and the page such a level leads to
Leads(page, k) ==
    LET t == join(Take(split(page), k))
    IN  IF t \in DOMAIN redirectTo THEN redirectTo[t] ELSE t

WithItem(page) ==
    {k \in 1..(Len(split(page)) - 1) :
        /\ join(Take(split(page), k)) \in existing
        /\ Leads(page, k) \in sitelink}

Nearest(page) ==
    Leads(page, CHOOSE k \in WithItem(page) : \A j \in WithItem(page) : j <= k)

-----------------------------------------------------------------------------
(* C1  Idempotence: when the pipeline (check_P1433.process_page, then      *)
(* harvest_pap1.process_page) has run on a page with every confirmation    *)
(* answered yes, no call of a later run of the pipeline on that page       *)
(* issues a mutation.                                                      *)
C1_SecondRunIsNoOp ==
    PipelineCalls > 2 => Len(Events(IsMutation)) = 0

-----------------------------------------------------------------------------
\* the lines that tell the target process_page resolved; the questions
\* and the edits
C2_Resolved(e) ==
    /\ e.kind = "print"
    /\ e.text \in {"found", "missing", "matches", "mismatch"}

C2_Proposed(e) == e.kind = "confirm" \/ IsMutation(e)

(* C2  Ancestor first-match priority: when a page of check_P1433 has a     *)
(* level above it that exists and (after the redirect is followed) has an  *)
(* item, the target that process_page resolves, asks about and writes is   *)
(* the item of the nearest such level; for A/B/C/D with items on A/B and A *)
(* and none on A/B/C it is A/B's item and never A's.                       *)
C2_FirstMatch ==
    (/\ Processed("check")
     /\ last.page \in sitelink
     /\ WithItem(last.page) # {})
    => /\ Len(Events(C2_Resolved)) = 1
       /\ Events(C2_Resolved)[1].target = Nearest(last.page)
       /\ \A i \in 1..Len(last.events) :
             C2_Proposed(last.events[i])
                => last.events[i].target = Nearest(last.page)
       /\ (/\ last.page = Chain(4)
           /\ {Chain(1), Chain(2)} \subseteq sitelink
           /\ 3 \notin WithItem(last.page))
          => /\ Events(C2_Resolved)[1].target = Chain(2)
             /\ \A i \in 1..Len(last.events) :
                   last.events[i].target # Chain(1)

\* A/B/C/D without TITUL, A/B/C a page without an item, A/B and A with
\* items: the claim added names A/B's item
C2_Witness ==
    /\ Processed("check")
    /\ last.page = Chain(4)
    /\ get_param(last.page, "TITUL") = None
    /\ {Chain(1), Chain(2)} \subseteq sitelink
    /\ Chain(3) \in existing \ sitelink
    /\ \E i \in 1..Len(last.events) :
          /\ last.events[i].kind = "addClaim"
          /\ last.events[i].target = Chain(2)

-----------------------------------------------------------------------------
(* Deduplication in harvest_pap1.                                          *)

\* the claim carries a P155 or a P156 qualifier
Bears(c) == c.P155 # <<>> \/ c.P156 # <<>>

\* the claims the page's item had at entry all name one target
OneTarget ==
    /\ Len(Entry) > 0
    /\ \A i \in 1..Len(Entry) : Entry[i].target = Entry[1].target

\* the removal of duplicates was asked and answered yes or all
DedupConfirmed ==
    \E i \in 1..Len(last.events) :
        /\ last.events[i].kind = "confirm"
        /\ last.events[i].edit = "DEDUP"
        /\ last.events[i].ans \in {"y", "a"}

IsRemoval(e) == e.kind = "removeClaims"

\* the identifiers of the claims the latest call removed
Removed == {Events(IsRemoval)[i].claim : i \in 1..Len(Events(IsRemoval))}

(* C3  Deduplication never removes the last surviving claim for a target:  *)
(* when the claims of the page's item all share one target, after          *)
(* harvest_pap1.process_page (with the removal confirmed, if asked) at     *)
(* least one claim with that target remains on the item, also when none    *)
(* of the claims carries a qualifier.                                      *)
C3_LastClaimSurvives ==
    (Processed("harvest") /\ OneTarget)
    => \E i \in 1..Len(Now) : Now[i].target = Entry[1].target

-----------------------------------------------------------------------------
(* C4  Dedup safety: when the claims of the page's item are several, share *)
(* one target, and at least one bears a P155/P156 qualifier, a confirmed   *)
(* deduplication removes exactly the claims without qualifiers, each once, *)
(* and leaves every claim that bears a qualifier on the item as it was.    *)
C4_DedupSafety ==
    (/\ Processed("harvest")
     /\ OneTarget
     /\ Len(Entry) > 1
     /\ \E i \in 1..Len(Entry) : Bears(Entry[i])
     /\ DedupConfirmed)
    => /\ Removed = {Entry[i].id : i \in {j \in 1..Len(Entry) : ~Bears(Entry[j])}}
       /\ Len(Events(IsRemoval)) = Cardinality(Removed)
       /\ Now = SelectSeq(Entry, Bears)

\* three claims with one target, one of them qualified, the removal
\* confirmed: two removals, the qualified claim stays
C4_Witness ==
    /\ Processed("harvest")
    /\ OneTarget
    /\ Len(Entry) = 3
    /\ Cardinality({i \in 1..3 : Bears(Entry[i])}) = 1
    /\ DedupConfirmed
    /\ Len(Events(IsRemoval)) = 2
    /\ Len(Now) = 1 /\ Bears(Now[1])

-----------------------------------------------------------------------------
(* C5  The claim cleanup_p1433_duplicates returns for qualifier attachment *)
(* is a surviving claim: the deduplication just performed did not remove   *)
(* it, and when a claim with that target carries a qualifier the returned  *)
(* claim carries one, whatever the order of the claims.                    *)
C5_ReturnedSurvives ==
    (Processed("harvest") /\ last.returned # <<>>)
    => /\ last.returned[1].id \notin Removed
       /\ (\E i \in 1..Len(Entry) : Bears(Entry[i])) => Bears(last.returned[1])

-----------------------------------------------------------------------------
(* C6  Ambiguity escalation.                                               *)

\* the claims the page's item had at entry name two or more targets
Ambiguous == Cardinality({Entry[i].target : i \in 1..Len(Entry)}) > 1

IsHeader(e) == e.kind = "print" /\ e.text = "different values"

IsValue(e) == e.kind = "print" /\ e.text = "value"

\* the targets the report lists, line by line
Reported == [i \in 1..Len(Events(IsValue)) |-> Events(IsValue)[i].target]

(* C6 as stated: when the page's item has P1433 claims with two or more    *)
(* distinct targets, harvest_pap1.process_page issues no mutation whatever *)
(* is answered, leaves the store unchanged, and reports every target       *)
(* exactly once.                                                           *)
C6_EveryTargetOnce ==
    (Processed("harvest") /\ Ambiguous)
    => /\ Len(Events(IsMutation)) = 0
       /\ claims = last.claims
       /\ \A t \in {Entry[i].target : i \in 1..Len(Entry)} :
             Cardinality({i \in 1..Len(Reported) : Reported[i] = t}) = 1

(* C6 amended: when the page's item has P1433 claims with two or more      *)
(* distinct targets, harvest_pap1.process_page issues no mutation whatever *)
(* is answered, leaves the store and the apply-all flag unchanged and      *)
(* hands no claim on; if the page names a previous or a next part, it      *)
(* makes one report that lists the target of every claim, one line per     *)
(* claim in the order of the claims (a target of several claims is listed  *)
(* once for each), and otherwise it makes no report.                       *)
C6_AmbiguityEscalated ==
    (Processed("harvest") /\ Ambiguous)
    => /\ Len(Events(IsMutation)) = 0
       /\ claims = last.claims
       /\ always_yes = last.all_yes
       /\ last.returned = <<>>
       /\ IF \/ Truthy(get_param(last.page, "PREDCHOZI"))
             \/ Truthy(get_param(last.page, "DALSI"))
          THEN /\ Len(Events(IsHeader)) = 1
               /\ Reported = [i \in 1..Len(Entry) |-> Entry[i].target]
          ELSE Len(Events(IsHeader)) = 0 /\ Reported = <<>>

\* three claims, two of them with one target and the third with another,
\* the browser asked for: three lines reported, nothing changed
C6_Witness ==
    /\ Processed("harvest")
    /\ Len(Entry) = 3
    /\ Entry[1].target = Entry[2].target
    /\ Entry[3].target # Entry[1].target
    /\ Len(Reported) = 3
    /\ \E i \in 1..Len(last.events) :
          last.events[i].kind = "input" /\ last.events[i].ans = "y"
    /\ claims = last.claims

-----------------------------------------------------------------------------
(* Reconciliation in check_P1433.                                          *)

(* C7  NO-OP on an already-correct item: on every resolution path of       *)
(* check_P1433.process_page, no mutation is issued whose target already    *)
(* is the target of a P1433 claim of the page's item, so no second claim   *)
(* with the same target is created.                                        *)
C7_NoOpWhenCorrect ==
    Processed("check")
    => \A i \in 1..Len(Events(IsMutation)) :
       \A j \in 1..Len(Entry) :
          Events(IsMutation)[i].target # Entry[j].target

-----------------------------------------------------------------------------
\* the item of the title process_page guesses for the page; the edit was
\* confirmed, by an answer or by apply-all
C8_Expected == get_item_for_page(guess_base_title(last.page))

C8_Confirmed ==
    \/ last.all_yes
    \/ \E i \in 1..Len(last.events) :
          last.events[i].kind = "confirm" /\ last.events[i].ans \in {"y", "a"}

-----------------------------------------------------------------------------
(* The confirmation gate and the apply-all flag.                           *)

\* the apply-all flag of the program that made the latest call
Flag == IF last.script = "check" THEN all_yes ELSE always_yes

IsConfirm(e) == e.kind = "confirm"

IsDeclined(e) == e.kind = "confirm" /\ e.ans \notin {"y", "a"}

IsAll(e) == e.kind = "confirm" /\ e.ans = "a"

\* ADD, REPLACE, DEDUP removal
IsGated(e) == e.kind \in {"addClaim", "changeTarget", "removeClaims"}

(* C9  Apply-all persistence: once 'all' is answered to a confirmation of  *)
(* either script, the apply-all flag is true; a call that begins with the  *)
(* flag true leaves it true and issues no confirmation prompt.             *)
C9_ApplyAllPersists ==
    (Processed("check") \/ Processed("harvest"))
    => /\ Len(Events(IsAll)) > 0 => Flag
       /\ last.all_yes => (Flag /\ Len(Events(IsConfirm)) = 0)

-----------------------------------------------------------------------------
(* C10  Confirmation gate.                                                 *)

RECURSIVE Gated(_)
\* The event just before the i-th is the confirmation of this edit,
\* answered yes or all; the removals of one DEDUP question follow one
\* another.
Gated(i) ==
    LET e == last.events[i] IN
    /\ i > 1
    /\ \/ /\ last.events[i - 1].kind = "confirm"
          /\ last.events[i - 1].ans \in {"y", "a"}
          /\ last.events[i - 1].edit = e.edit
          /\ last.events[i - 1].item = e.item
          /\ last.events[i - 1].target = e.target
       \/ /\ e.kind = "removeClaims"
          /\ last.events[i - 1].kind = "removeClaims"
          /\ last.events[i - 1].item = e.item
          /\ Gated(i - 1)

\* outside apply-all mode every ADD, REPLACE and DEDUP removal is gated
GateHolds ==
    ~last.all_yes
    => \A i \in 1..Len(last.events) : IsGated(last.events[i]) => Gated(i)

\* the claims of every item, their qualifiers left out
Bare(store) ==
    [q \in DOMAIN store |->
        [i \in 1..Len(store[q]) |->
            [id |-> store[q][i].id, target |-> store[q][i].target]]]

(* C10 as stated: while the session is not in apply-all mode, every ADD,   *)
(* REPLACE and DEDUP removal is immediately preceded, for the same page    *)
(* and the same proposed edit, by a confirmation answered yes or all; an   *)
(* answer of no leaves the store and the session state unchanged.          *)
C10_NoLeavesStoreUnchanged ==
    (Processed("check") \/ Processed("harvest"))
    => /\ GateHolds
       /\ Len(Events(IsDeclined)) > 0
          => (claims = last.claims /\ Flag = last.all_yes)

(* C10 amended: while the session is not in apply-all mode, every ADD,     *)
(* REPLACE and DEDUP removal is immediately preceded, for the same page    *)
(* and the same proposed edit, by a confirmation answered yes or all; an   *)
(* answer of no leaves the session state unchanged and the proposed edit   *)
(* unapplied: no claim is added, retargeted or removed.  In check_P1433    *)
(* the store is then unchanged; in harvest_pap1 the attachment of P155 and *)
(* P156 qualifiers still follows.                                          *)
C10_ConfirmationGate ==
    (Processed("check") \/ Processed("harvest"))
    => /\ GateHolds
       /\ Len(Events(IsDeclined)) > 0
          => /\ Len(Events(IsGated)) = 0
             /\ Bare(claims) = Bare(last.claims)
             /\ Flag = last.all_yes
             /\ last.script = "check" => claims = last.claims

\* outside apply-all mode a question answered yes, and the claim added
C10_Witness ==
    /\ Processed("check")
    /\ ~last.all_yes
    /\ \E i \in 2..Len(last.events) :
          /\ last.events[i].kind = "addClaim"
          /\ last.events[i - 1].kind = "confirm"
          /\ last.events[i - 1].ans = "y"
    /\ Len(Now) = Len(Entry) + 1

-----------------------------------------------------------------------------
(* add_statement_with_qualifier called again and again on one claim: the   *)
(* claim object stays in the script's memory between the calls.            *)

\* the items a qualifier may name: the two siblings of A/B
QualifierTargets == {Sibling(Chain(2), PrevName), Sibling(Chain(2), NextName)}

\* the qualifiers a loaded claim has for one property: no item twice
QualifierLists ==
    {<<>>, <<Sibling(Chain(2), PrevName)>>, <<Sibling(Chain(2), NextName)>>,
     <<Sibling(Chain(2), PrevName), Sibling(Chain(2), NextName)>>}

\* the claim in the script's memory
Journal == last.returned[1]

\* A/B's item with one P1433 claim, loaded with any qualifiers; the claim
\* is on the item, or was removed from it
InitQualify ==
    /\ \E p155 \in QualifierLists :
       \E p156 \in QualifierLists :
       \E on_item \in BOOLEAN :
          LET c == Claim(1, Chain(1), p155, p156)
          IN  /\ claims = [q \in {Chain(2), Other} |->
                             IF q = Chain(2) /\ on_item THEN <<c>> ELSE <<>>]
              /\ last = [NoCall EXCEPT !.returned = <<c>>]
    /\ Hierarchy(2, TopOnly(2, "page"), "absent", FALSE, {PrevName, NextName})
    /\ template = Params({Chain(2), Other}, None, PrevName, NextName)
    /\ nextId = 2
    /\ all_yes = FALSE
    /\ always_yes = FALSE
    /\ pc = "qualify"
    /\ todo = MaxCalls

\* add_statement_with_qualifier(repo, item, prop, target_item, journal_claim)
Qualify ==
    /\ pc = "qualify" /\ todo > 0
    /\ \E prop \in {"P155", "P156"} :
       \E target_item \in QualifierTargets \cup {None} :
          LET r == add_statement_with_qualifier(claims, Chain(2), prop,
                                                target_item, Journal)
          IN  /\ claims' = r.claims
              /\ last' = [script |-> "qualify", page |-> Chain(2),
                          skipped |-> FALSE, all_yes |-> always_yes,
                          claims |-> claims, events |-> r.events,
                          raised |-> FALSE, returned |-> <<r.journal_claim>>,
                          prop |-> prop, target_item |-> target_item,
                          journal_claim |-> Journal]
    /\ todo' = todo - 1
    /\ UNCHANGED <<world, nextId, all_yes, always_yes, pc>>

SpecQualify == InitQualify /\ [][Qualify]_vars

\* the list names no item twice
NoRepeat(q) == \A i, j \in 1..Len(q) : q[i] = q[j] => i = j

\* the claim holds no (qualifier property, target) twice
NoDuplicate(c) == NoRepeat(c.P155) /\ NoRepeat(c.P156)

\* the claim carries a qualifier of this property with this target
Carries(c, prop, target) == \E i \in 1..Len(c[prop]) : c[prop][i] = target

(* C11  Qualifier non-duplication: a call of add_statement_with_qualifier  *)
(* for a property and a target that the claim already carries issues no    *)
(* addQualifier and leaves the store and the claim as they were; so after  *)
(* any sequence of calls neither the claim in memory nor a claim of the    *)
(* store holds the same (qualifier property, target) twice.                *)
C11_NoDuplicateQualifier ==
    /\ NoDuplicate(Journal)
    /\ \A q \in DOMAIN claims : \A i \in 1..Len(claims[q]) :
          NoDuplicate(claims[q][i])
    /\ (/\ last.script = "qualify"
        /\ Carries(last.journal_claim, last.prop, last.target_item))
       => /\ last.events = <<>>
          /\ claims = last.claims
          /\ Journal = last.journal_claim

\* a call for a qualifier the claim got from an earlier call: nothing done
C11_Witness ==
    /\ last.script = "qualify"
    /\ todo < MaxCalls - 1
    /\ Carries(last.journal_claim, last.prop, last.target_item)
    /\ Len(claims[Chain(2)]) = 1
    /\ Len(last.claims[Chain(2)][1].P155)
         + Len(last.claims[Chain(2)][1].P156) > 0
    /\ last.events = <<>>

-----------------------------------------------------------------------------
IsAttach(e) == e.kind = "addQualifier"

(* C12  Already-curated claims are untouched: harvest_pap1.process_page    *)
(* adds a qualifier only to a claim that had no P155 and no P156 when the  *)
(* call began; a claim that bore either qualifier then is on the item      *)
(* afterwards exactly as it was: nothing added to it, and not removed.     *)
C12_CuratedUntouched ==
    Processed("harvest")
    => /\ \A i \in 1..Len(Entry) :
             Bears(Entry[i]) => \E j \in 1..Len(Now) : Now[j] = Entry[i]
       /\ \A k \in 1..Len(Events(IsAttach)) :
             \E i \in 1..Len(Entry) :
                /\ Entry[i].id = Events(IsAttach)[k].claim
                /\ ~Bears(Entry[i])

\* the page names both siblings and both have items, but the first claim
\* has a qualifier already: process_page says so and changes nothing
C12_Witness ==
    /\ Processed("harvest")
    /\ Truthy(get_param(last.page, "PREDCHOZI"))
    /\ Truthy(get_param(last.page, "DALSI"))
    /\ {Sibling(last.page, PrevName), Sibling(last.page, NextName)}
          \subseteq sitelink
    /\ Len(Entry) > 0 /\ Bears(Entry[1])
    /\ Len(Entry[1].P155) + Len(Entry[1].P156) = 1
    /\ \E i \in 1..Len(last.events) :
          last.events[i].text = "P1433 already has P155/P156"
    /\ Now = Entry

-----------------------------------------------------------------------------
\* the levels above a page that exist, and the page the topmost leads to
ExistingAbove(page) ==
    {k \in 1..(Len(split(page)) - 1) : join(Take(split(page), k)) \in existing}

Topmost(page) ==
    Leads(page, CHOOSE k \in ExistingAbove(page) :
                   \A j \in ExistingAbove(page) : k <= j)

(* C13  Highest-ancestor fallback: when levels above the page exist but    *)
(* none of them has an item, guess_base_title returns the title of the     *)
(* topmost existing level, its redirect followed, and that is the title    *)
(* process_page reports as having no item; for A/B/C with A a page without *)
(* an item and no page A/B the result is A.                                *)
C13_HighestAncestor ==
    (/\ Processed("check")
     /\ ExistingAbove(last.page) # {}
     /\ WithItem(last.page) = {})
    => /\ guess_base_title(last.page) = Topmost(last.page)
       /\ (/\ last.page \in sitelink
           /\ Truthy(get_param(last.page, "TITUL")))
          => last.events[1]
               = print("no item for the expected work", Topmost(last.page))
       /\ (/\ last.page = Chain(3)
           /\ Chain(1) \in existing \ (sitelink \cup DOMAIN redirectTo)
           /\ Chain(2) \notin existing)
          => guess_base_title(last.page) = Chain(1)

\* A/B/C/D with TITUL, A/B/C and A pages without items, no page A/B: the
\* work reported as having no item is A
C13_Witness ==
    /\ Processed("check")
    /\ last.page = Chain(4)
    /\ Truthy(get_param(last.page, "TITUL"))
    /\ {Chain(1), Chain(3)} \subseteq existing \ (sitelink \cup DOMAIN redirectTo)
    /\ Chain(2) \notin existing
    /\ last.events[1] = print("no item for the expected work", Chain(1))
    /\ guess_base_title(last.page) = Chain(1)

\* the case the statement names: A/B/C, A without an item, no page A/B
C13_WitnessExample ==
    /\ Processed("check")
    /\ last.page = Chain(3)
    /\ Chain(1) \in existing \ (sitelink \cup DOMAIN redirectTo)
    /\ Chain(2) \notin existing
    /\ guess_base_title(last.page) = Chain(1)

-----------------------------------------------------------------------------
IsNoParent(e) == e.kind = "print" /\ e.text = "no parent level"

(* C14  A page whose path has a single segment is resolved by neither      *)
(* policy: with or without TITUL, process_page asks nothing, writes        *)
(* nothing, never names the page's own item as its target, and reports     *)
(* that the page has no parent level.                                      *)
C14_SingleSegmentUnresolved ==
    (/\ Processed("check")
     /\ last.page \in sitelink
     /\ Len(split(last.page)) = 1)
    => /\ Len(Events(C2_Proposed)) = 0
       /\ claims = last.claims
       /\ \A i \in 1..Len(last.events) : last.events[i].target # last.page
       /\ Len(Events(IsNoParent)) = 1

-----------------------------------------------------------------------------
\* the latest call was on a page with an item whose template declares TITUL
Declared ==
    /\ Processed("check")
    /\ last.page \in sitelink
    /\ Truthy(get_param(last.page, "TITUL"))

IsNotFound(e) ==
    e.kind = "print" /\ e.text = "no item for the expected work"

\* the lines of the synthesized and of the searched candidates
IsLater(e) ==
    \/ e.kind = "print"
       /\ e.text \in {"found as", "candidates", "candidate",
                      "no similar titles",
                      "chosen page has no item"}
    \/ e.kind = "input"

\* the title the page's own path gives: the page itself when it has one
\* segment, else the nearest level with an item, else the topmost existing
\* level, else the first segment
Derived(page) ==
    IF Len(split(page)) = 1 THEN page
    ELSE IF WithItem(page) # {} THEN Nearest(page)
    ELSE IF ExistingAbove(page) # {} THEN Topmost(page)
    ELSE join(Take(split(page), 1))

\* the first thing process_page does is resolve this title: it names the
\* title's item as the expected one, or says that the title has none
ResolvedFirst(title) ==
    /\ Len(last.events) > 0
    /\ IF title \in sitelink
       THEN /\ C2_Resolved(last.events[1])
            /\ last.events[1].target = title
            /\ Len(Events(IsLater)) = 0
            /\ \A i \in 1..Len(last.events) :
                  C2_Proposed(last.events[i]) => last.events[i].target = title
       ELSE /\ last.events[1] = print("no item for the expected work", title)
            /\ Len(Events(IsNotFound)) = 1

(* C15  Primary policy as stated: when the template declares a title, the  *)
(* expected target is the item of the page named by the declared title,    *)
(* resolved before any synthesized or searched candidate.                  *)
C15_DeclaredTitleResolved ==
    Declared => ResolvedFirst(get_param(last.page, "TITUL"))

(* C15  Primary policy: when the template declares a title, the expected   *)
(* target is the item of the title derived from the page's own path (the   *)
(* nearest level above with an item, else the topmost existing level, the  *)
(* page itself when it has one segment); the declared title is not read;   *)
(* this title is resolved before any synthesized or searched candidate.    *)
C15_PathTitleResolved ==
    Declared => ResolvedFirst(Derived(last.page))

\* A/B declares the title X, X and A both have items: the claim added names
\* A's item
C15_Witness ==
    /\ Declared
    /\ last.page = Chain(2)
    /\ get_param(last.page, "TITUL") = Other
    /\ {Other, Chain(1)} \subseteq sitelink
    /\ last.events[1] = print("missing", Chain(1))
    /\ \E i \in 1..Len(last.events) :
          /\ last.events[i].kind = "addClaim"
          /\ last.events[i].target = Chain(1)

-----------------------------------------------------------------------------
\* the parent path of a page, and the title the multi-level guess builds
\* from it and the base title
Prefix(page) == join(Take(split(page), Len(split(page)) - 1))

Synthesized(page) == Prefix(page) \o <<Slash>> \o Derived(page)

\* direct resolution failed, the path has more than two segments, and the
\* synthesized title has the item that the page's first P1433 claim names
MultiLevelMatch ==
    /\ Declared
    /\ Derived(last.page) \notin sitelink
    /\ Len(split(last.page)) > 2
    /\ ~startswith(Derived(last.page), Prefix(last.page))
    /\ Synthesized(last.page) \in sitelink
    /\ Len(Entry) > 0
    /\ Entry[1].target = Synthesized(last.page)

(* C16  Multi-level short-circuit: when direct resolution fails, the path  *)
(* has more than two segments and the title synthesized from the parent    *)
(* path and the base title has the item the page's P1433 claim already     *)
(* names, process_page ends normally: no exception, no question, no        *)
(* mutation, the store and the session flag as they were, the run going on.*)
C16_MultiLevelShortCircuit ==
    MultiLevelMatch
    => /\ ~last.raised
       /\ pc # "aborted"
       /\ Len(Events(C2_Proposed)) = 0
       /\ claims = last.claims
       /\ all_yes = last.all_yes

-----------------------------------------------------------------------------
(* A store that refuses a mutation: addClaim, changeTarget, removeClaims   *)
(* or addQualifier raises.  Neither process_page nor main catches it.      *)

\* the store after the mutation of one event
Applied(store, e) ==
    CASE e.kind = "addClaim" -> addClaim(store, e.claim, e.item, e.target)
      [] e.kind = "changeTarget" ->
            changeTarget(store, e.item, e.claim, e.target)
      [] e.kind = "removeClaims" -> removeClaims(store, e.item, e.claim)
      [] e.kind = "addQualifier" ->
            addQualifier(store, e.item, e.claim, e.prop, e.target)
      [] OTHER -> store

\* the store after the mutations among the first n events of a call
RECURSIVE Replay(_, _, _)
Replay(store, events, n) ==
    IF n = 0 THEN store
    ELSE Applied(Replay(store, events, n - 1), events[n])

\* the call stops at its k-th event, a mutation that the store refuses
Refused(events, k) ==
    [events |-> SubSeq(events, 1, k - 1)
                  \o <<Ev("exception", events[k].edit, events[k].item,
                          events[k].claim, events[k].target, events[k].prop,
                          "", events[k].kind)>>,
     raised |-> TRUE]

\* all_yes = process_page(page, repo, all_yes), the store refusing the
\* mutation: the exception leaves process_page and main
CheckFail ==
    /\ pc = "check" /\ todo > 0
    /\ \E page \in Yielded :
       \E ans \in {"y", "n", "a"} :
       \E choice \in {"", "1", "2"} :
          LET r == check_process_page(page, all_yes, ans, choice) IN
          /\ Exists(page) /\ ~IsRedirect(page)
          /\ ~r.raised
          /\ \E k \in 1..Len(r.events) :
                /\ IsMutation(r.events[k])
                /\ claims' = Replay(claims, r.events, k - 1)
                /\ last' = Call("check", page, FALSE, Refused(r.events, k),
                                <<>>)
    /\ pc' = "aborted"
    /\ todo' = todo - 1
    /\ UNCHANGED <<world, nextId, all_yes, always_yes>>

\* process_page(page, repo), the store refusing one of its mutations; the
\* removals come before "always_yes = True", the qualifiers after it
HarvestFail ==
    /\ pc = "harvest" /\ todo > 0
    /\ \E page \in Yielded :
       \E open \in {"y", ""} :
       \E ans \in {"y", "n", "a", ""} :
          LET r == harvest_process_page(page, always_yes, open, ans) IN
          /\ Exists(page) /\ ~IsRedirect(page)
          /\ \E k \in 1..Len(r.events) :
                /\ IsMutation(r.events[k])
                /\ claims' = Replay(claims, r.events, k - 1)
                /\ always_yes' = IF r.events[k].kind = "addQualifier"
                                 THEN r.always_yes ELSE always_yes
                /\ last' = Call("harvest", page, FALSE, Refused(r.events, k),
                                <<>>)
    /\ pc' = "aborted"
    /\ todo' = todo - 1
    /\ UNCHANGED <<world, nextId, all_yes>>

NextFailing == Next \/ CheckFail \/ HarvestFail

SpecFailing == Init /\ [][NextFailing]_vars

IsException(e) == e.kind = "exception"

(* C17  A store mutation that fails on one page ends only that page's      *)
(* edit: the main loop goes on to the later pages of the input, with the   *)
(* session state it had before the failing page.                           *)
C17_FailureEndsOnlyThatPage ==
    (last.raised /\ Len(Events(IsException)) > 0)
    => /\ pc # "aborted"
       /\ Flag = last.all_yes

-----------------------------------------------------------------------------
\* process_page of harvest_pap1 came to the siblings of the page
AtSiblings ==
    /\ Processed("harvest")
    /\ \E i \in 1..Len(last.events) :
          last.events[i].kind = "print" /\ last.events[i].text = "published in"

\* the template names both parts; the part called found has an item, the
\* part called missing has none
OneMissing(missing, found) ==
    /\ AtSiblings
    /\ Truthy(get_param(last.page, "PREDCHOZI"))
    /\ Truthy(get_param(last.page, "DALSI"))
    /\ Sibling(last.page, missing) \notin sitelink
    /\ Sibling(last.page, found) \in sitelink

\* the call says that the sibling has no item, naming the parent path plus
\* the declared name
SaidMissing(text, name) ==
    \E i \in 1..Len(last.events) :
       last.events[i] = print(text, Sibling(last.page, name))

\* the claim process_page works on is on the item and carries the
\* qualifier, added by one addQualifier of this call
Attached(prop, name) ==
    /\ \E i \in 1..Len(last.events) :
          /\ last.events[i].kind = "addQualifier"
          /\ last.events[i].prop = prop
          /\ last.events[i].target = Sibling(last.page, name)
          /\ last.events[i].claim = last.returned[1].id
    /\ \E j \in 1..Len(Now) :
          /\ Now[j].id = last.returned[1].id
          /\ Carries(Now[j], prop, Sibling(last.page, name))

(* C18  A missing sibling item is not fatal: the previous and the next     *)
(* sibling are each the page's parent path plus the declared name, and     *)
(* when one of them has no item the qualifier of the other is still        *)
(* attached to the claim: P156 when the previous is missing and the next   *)
(* found, P155 when the previous is found and the next missing.            *)
C18_MissingSiblingNotFatal ==
    /\ OneMissing(PrevName, NextName)
          => /\ ~last.raised
             /\ SaidMissing("no item for the previous", PrevName)
             /\ Attached("P156", NextName)
    /\ OneMissing(NextName, PrevName)
          => /\ ~last.raised
             /\ SaidMissing("no item for the next", NextName)
             /\ Attached("P155", PrevName)

\* the same, for the calls in which the claim handed on is still on the item
C18_WhenClaimOnItem ==
    (/\ Len(last.returned) > 0
     /\ \E j \in 1..Len(Now) : Now[j].id = last.returned[1].id)
    => C18_MissingSiblingNotFatal

-----------------------------------------------------------------------------
\* the latest call came to the search for similar titles
Searched ==
    /\ Processed("check")
    /\ \E i \in 1..Len(last.events) :
          /\ last.events[i].kind = "print"
          /\ last.events[i].text \in {"candidates", "no similar titles"}

IsCandidate(e) == e.kind = "print" /\ e.text = "candidate"

\* the titles the call listed for the human, in the order listed
Offered ==
    [i \in 1..Len(Events(IsCandidate)) |-> Events(IsCandidate)[i].target]

\* a top-level page whose title holds the base title, whatever the case
IsMatch(p) ==
    /\ \A i \in 1..Len(p) : p[i] # Slash
    /\ Contains(lower(p), lower(Derived(last.page)))

\* every match among the pages, in the order allpages yields them
Matches == SelectSeq(allpages, IsMatch)

\* where the enumeration should end: at the fifth match, else at the end
StopsAt ==
    IF Len(Matches) >= MaxCandidates
    THEN CHOOSE k \in 1..Len(allpages) : allpages[k] = Matches[MaxCandidates]
    ELSE Len(allpages)

(* C19  Bounded fallback search: the list of similar titles offered to     *)
(* the human never holds more than 5 pages; every page in it is a          *)
(* top-level page (no "/" in its title) whose title contains the base      *)
(* title, case ignored; the list is the first matches in the order of      *)
(* enumeration, and the enumeration stops at the fifth match.              *)
C19_BoundedSearch ==
    Searched
    => /\ Len(Offered) <= MaxCandidates
       /\ \A i \in 1..Len(Offered) : IsMatch(Offered[i])
       /\ Offered = similar_titles(allpages, 1, lower(Derived(last.page)), <<>>)
       /\ Offered = SubSeq(Matches, 1,
                           IF Len(Matches) < MaxCandidates
                           THEN Len(Matches) ELSE MaxCandidates)
       /\ pages_read(allpages, 1, lower(Derived(last.page)), <<>>) = StopsAt

\* more than 5 top-level pages match, five are offered, and pages that come
\* later in the enumeration are not read: one of them is a match as well
C19_Witness ==
    /\ Searched
    /\ last.page = Chain(2)
    /\ Len(Matches) > MaxCandidates
    /\ Len(Offered) = MaxCandidates
    /\ <<"B">> \in existing
    /\ StopsAt < Len(allpages)
    /\ IsMatch(allpages[Len(allpages)])

-----------------------------------------------------------------------------
\* the claims of the page's item differ from those at entry by one claim
\* added at the end, or by the target of one claim
OneAdded == Len(Now) = Len(Entry) + 1 /\ SubSeq(Now, 1, Len(Entry)) = Entry

OneRetargeted ==
    /\ Len(Now) = Len(Entry)
    /\ \E i \in 1..Len(Entry) :
          /\ Now[i] = [Entry[i] EXCEPT !.target = Now[i].target]
          /\ \A j \in 1..Len(Entry) : j # i => Now[j] = Entry[j]

(* C20  Each call of check_P1433.process_page issues at most one store     *)
(* mutation: one addClaim or one changeTarget, never both and never two,   *)
(* whatever the branch and the answers; the store changes by that one      *)
(* mutation on the page's item and by nothing else.                        *)
C20_AtMostOneMutation ==
    Processed("check")
    => /\ Len(Events(IsMutation)) <= 1
       /\ \A i \in 1..Len(last.events) :
             IsMutation(last.events[i])
                => /\ last.events[i].kind \in {"addClaim", "changeTarget"}
                   /\ last.events[i].item = last.page
       /\ \A q \in DOMAIN claims : q # last.page => claims[q] = last.claims[q]
       /\ last.page \in DOMAIN claims
             => IF Len(Events(IsMutation)) = 0 THEN Now = Entry
                ELSE IF Events(IsMutation)[1].kind = "addClaim" THEN OneAdded
                ELSE OneRetargeted /\ Now # Entry

\* a call that went through the list of similar titles, a choice and a
\* confirmation answered "all", and added one claim
C20_Witness ==
    /\ Processed("check")
    /\ Len(Events(IsCandidate)) > 0
    /\ \E i \in 1..Len(last.events) :
          last.events[i].kind = "confirm" /\ last.events[i].ans = "a"
    /\ Len(Events(IsMutation)) = 1
    /\ Events(IsMutation)[1].kind = "addClaim"
    /\ OneAdded

\* a call that changed the target of the claim, the flag set by an earlier
\* page: no question, one changeTarget
C20_WitnessReplace ==
    /\ Processed("check")
    /\ last.all_yes
    /\ Len(Events(IsMutation)) = 1
    /\ Events(IsMutation)[1].kind = "changeTarget"
    /\ OneRetargeted

=============================================================================
